---- MODULE Spec2Model ----
(***************************************************************************)
(* Cross-source claim corroboration in the three verify pipelines of the   *)
(* searchagent repository:                                                 *)
(*   services/birthfinder/run_full_pipeline_verify_v2.py    (birth year)   *)
(*   services/deathfinder/run_pipeline_verify.py      (death year / alive) *)
(*   services/nationalityfinder/run_pipeline_verify.py  (nationality set)  *)
(* One behaviour is one run of main() for one person: the retrieved        *)
(* candidate list, the chunk index and the extractor's answers are fixed   *)
(* in the initial state, every loop iteration is one step, and the         *)
(* classification with the append to the output file is the last step.     *)
(***************************************************************************)
EXTENDS Integers, Sequences, FiniteSets, TLC

\* ------------------------------------------------------------------ bounds
MaxCands == 3      \* longest candidate list explored
MaxScans == 3      \* largest --max_scans explored, in absolute value
MaxChunks == 3     \* longest chunk file given to a batch runner
ArgLimit == 3      \* characters the OS takes in one argument, scaled down

\* --------------------------------------------------------------- constants
None == 0          \* Python None for an Optional[int] year
QUORUM == 2        \* independent domains that verify a value
YEAR_LO == 1600
YEAR_HI == 2099

Pipelines == {"birth", "death", "nat"}
Domains   == {"wiki.org", "state.gov", ""}
Years     == {1950, 1951}

\* ----------------------------------------------------------------- helpers
Min(a, b) == IF a <= b THEN a ELSE b
Max(a, b) == IF a >= b THEN a ELSE b

\* candidates[: n]
PySlice(s, n) ==
  IF n >= 0 THEN SubSeq(s, 1, Min(n, Len(s)))
            ELSE SubSeq(s, 1, Max(Len(s) + n, 0))

SeqsUpTo(A, n) == UNION {[1..k -> A] : k \in 0..n}

RECURSIVE SeqMax(_)
\* max(v["count"] for v in ledgers.values()), on a non-empty ledger
SeqMax(s) ==
  IF Len(s) = 1 THEN s[1].count ELSE Max(s[1].count, SeqMax(Tail(s)))

\* [k for k, v in s.items() if v["count"] == n], order kept
KeysAtCount(s, n) ==
  LET F[i \in 0..Len(s)] ==
        IF i = 0 THEN <<>>
        ELSE IF s[i].count = n THEN Append(F[i-1], s[i].key) ELSE F[i-1]
  IN F[Len(s)]

\* [k for k, v in s.items() if v["count"] >= n], order kept
KeysAtLeast(s, n) ==
  LET F[i \in 0..Len(s)] ==
        IF i = 0 THEN <<>>
        ELSE IF s[i].count >= n THEN Append(F[i-1], s[i].key) ELSE F[i-1]
  IN F[Len(s)]

\* --------------------------------------------------- evidence classification
\* A chunk text is represented by the tag evidence_type_from_text gives it.
quality_rank(evidence_type) ==
  CASE evidence_type = "born-field"     -> 0
    [] evidence_type = "born-narrative" -> 1
    [] evidence_type = "other"          -> 2
    [] evidence_type = "category"       -> 3
    [] OTHER                            -> 4

death_quality_rank(evidence_type) ==
  CASE evidence_type = "obituary"        -> 0
    [] evidence_type = "death-narrative" -> 1
    [] evidence_type = "alive-current"   -> 1
    [] evidence_type = "other"           -> 2
    [] OTHER                             -> 3

\* ------------------------------------------------------ extractor outputs
\* The text returned by the prompt is represented by what the regular
\* expressions of the parsers can see in it:
\*   flag        the value matched after "contains_birthdate:" / "status:" /
\*               "nationalities_found:", or "nomatch"
\*   year_field  the value matched after "birth_year:" / "death_year:":
\*               -1 no match, 0 the word null, otherwise the four digits
\*   first_year  the first match of YEAR_RE in the whole text, 0 if none
\*   has_list    "nationalities: [...]" matched
\*   codes       the quoted three-letter codes inside the brackets, in order
\*   raises      the call raised instead of returning a text
InRange(y) == YEAR_LO <= y /\ y <= YEAR_HI

parse_birth_prompt_output(text) ==
  LET contains == (text.flag = "true")
      year  == IF text.year_field > 0 /\ InRange(text.year_field)
               THEN text.year_field ELSE None
      year2 == IF contains /\ year = None /\ text.first_year # 0
                  /\ InRange(text.first_year)
               THEN text.first_year ELSE year
  IN [contains |-> contains, year |-> year2]

parse_death_prompt_output(text) ==
  LET status == IF text.flag \in {"deceased", "alive", "unknown"}
                THEN text.flag ELSE "unknown"
      year  == IF text.year_field > 0 /\ InRange(text.year_field)
               THEN text.year_field ELSE None
      year2 == IF status = "deceased" /\ year = None /\ text.first_year # 0
                  /\ InRange(text.first_year)
               THEN text.first_year ELSE year
  IN [status |-> status, year |-> year2]

\* list(set(codes)): the duplicates are dropped; the order of the list is the
\* iteration order of a set of strings, which is any order of its elements
Range(s) == {s[i] : i \in 1..Len(s)}
Orderings(S) ==
  {q \in [1..Cardinality(S) -> S] : \A i, j \in 1..Cardinality(S) :
                                        q[i] = q[j] => i = j}

\* mutant: the parser that does not read nationalities_found
parse_nationality_prompt_outputNoFlag(text) ==
  [found |-> TRUE,
   nationalities |-> IF text.has_list THEN Range(text.codes) ELSE {}]

parse_nationality_prompt_output(text) ==
  [found |-> (text.flag = "true"),
   nationalities |-> IF text.has_list THEN Range(text.codes) ELSE {}]

\* --------------------------------------------------------------- the inputs
Out(raises, flag, year_field, first_year, has_list, codes) ==
  [raises |-> raises, flag |-> flag, year_field |-> year_field,
   first_year |-> first_year, has_list |-> has_list, codes |-> codes]

\* c: one entry of the retriever's list; row: chunk_map.get(c["chunk_id"]) is
\* not None; text: the row's text (its evidence tag); out: what the prompt
\* call on that text does
Cand(row, domain, text, out) ==
  [row |-> row, domain |-> domain, text |-> text, out |-> out]

OutRaise == Out(TRUE, "nomatch", -1, 0, FALSE, <<>>)
OutGarbled == Out(FALSE, "nomatch", -1, 0, FALSE, <<>>)

BirthCandidates ==
  {Cand(FALSE, "wiki.org", "other", OutGarbled)}
  \cup {Cand(TRUE, "wiki.org", "other", o) :
          o \in {OutRaise, OutGarbled,
                 Out(FALSE, "false", 0, 0, FALSE, <<>>),
                 Out(FALSE, "true", 0, 0, FALSE, <<>>)}}
  \cup {Cand(TRUE, "state.gov", "born-narrative", o) :
          o \in {Out(FALSE, "true", -1, 1951, FALSE, <<>>),
                 Out(FALSE, "true", 1950, 1950, FALSE, <<>>)}}
  \cup {Cand(TRUE, d, "born-field", Out(FALSE, "true", y, y, FALSE, <<>>)) :
          d \in Domains, y \in Years}

DeathCandidates ==
  {Cand(FALSE, "wiki.org", "other", OutGarbled)}
  \cup {Cand(TRUE, "wiki.org", "other", o) :
          o \in {OutRaise, OutGarbled,
                 Out(FALSE, "unknown", 0, 0, FALSE, <<>>),
                 Out(FALSE, "deceased", 0, 0, FALSE, <<>>)}}
  \cup {Cand(TRUE, "state.gov", "death-narrative",
             Out(FALSE, "deceased", -1, 1951, FALSE, <<>>))}
  \cup {Cand(TRUE, d, "obituary", Out(FALSE, "deceased", y, y, FALSE, <<>>)) :
          d \in Domains, y \in Years}
  \cup {Cand(TRUE, d, "alive-current", Out(FALSE, "alive", 0, 0, FALSE, <<>>)) :
          d \in Domains}

NatCandidates ==
  {Cand(FALSE, "wiki.org", "other", OutGarbled)}
  \cup {Cand(TRUE, "wiki.org", "other", o) :
          o \in {OutRaise, OutGarbled,
                 Out(FALSE, "false", -1, 0, TRUE, <<"FRA">>),
                 Out(FALSE, "true", -1, 0, TRUE, <<>>),
                 Out(FALSE, "true", -1, 0, TRUE, <<"ITA", "ITA">>)}}
  \cup {Cand(TRUE, d, "other", Out(FALSE, "true", -1, 0, TRUE, cs)) :
          d \in Domains, cs \in {<<"FRA">>, <<"ITA">>, <<"FRA", "ITA">>}}

CandidateSet(p) ==
  CASE p = "birth" -> BirthCandidates
    [] p = "death" -> DeathCandidates
    [] OTHER       -> NatCandidates

\* ---------------------------------------------------------------- the state
VARIABLES
  pipeline,            \* which main() runs
  all_chunks,          \* bool(all_chunks): the chunk file holds a chunk
  max_scans,           \* args.max_scans
  candidates,          \* the retriever's list, filtered to the person
  pc,                  \* "start" (all_chunks was read), "scan", "break",
                       \* "done", "crashed"
  idx,                 \* candidates of the slice the for loop has taken
  scanned,             \* scanned
  calls,               \* 1-based positions at which the prompt was run
  year_ledgers,        \* dict year -> ledger, in insertion order
  nationality_ledgers, \* dict code -> ledger, in insertion order
  counts,              \* counts (birth)
  alive_signals,       \* alive_signals (death)
  winner_year, outcome, verified,
  out_file,            \* the lines appended to the output .jsonl
  batch                \* the batch runner: its position, names and children

vars == <<all_chunks, pipeline, max_scans, candidates, pc, idx, scanned, calls,
          year_ledgers, nationality_ledgers, counts, alive_signals,
          winner_year, outcome, verified, out_file, batch>>

\* no batch runner is running: main() was started by hand
NoBatch == [pc |-> "off"]

ZeroCounts == [match |-> 0, partial |-> 0, none |-> 0, conflict |-> 0]

Init ==
  /\ pipeline \in Pipelines
  /\ max_scans \in (-MaxScans)..MaxScans
  /\ candidates \in SeqsUpTo(CandidateSet(pipeline), MaxCands)
  /\ all_chunks \in BOOLEAN
  /\ ~all_chunks => \A i \in 1..Len(candidates) : ~candidates[i].row
  /\ pc = "start"
  /\ idx = 0
  /\ scanned = 0
  /\ calls = <<>>
  /\ year_ledgers = <<>>
  /\ nationality_ledgers = <<>>
  /\ counts = ZeroCounts
  /\ alive_signals = <<>>
  /\ winner_year = None
  /\ outcome = "unset"
  /\ verified = -1
  /\ out_file = <<>>
  /\ batch = NoBatch

\* --------------------------------------------------------------- the ledger
Keys(L) == {L[i].key : i \in 1..Len(L)}
IndexOf(L, k) == CHOOSE i \in 1..Len(L) : L[i].key = k
Entry(L, k) == L[IndexOf(L, k)]

\* record with the count raised for every source, repeat domains included
recordEverySource(L, k, domain, src) ==
  LET L1 == IF k \in Keys(L) THEN L
            ELSE Append(L, [key |-> k, count |-> 0, domains |-> {},
                            sources |-> <<>>])
      i  == IndexOf(L1, k)
      e  == [L1[i] EXCEPT !.count = @ + 1, !.domains = @ \cup {domain}]
  IN [L1 EXCEPT ![i] = [e EXCEPT !.sources = Append(@, src)]]

\* record with a new key assigned as the whole dict: ledgers = {key: {...}}
recordReplaceLedger(L, k, domain, src) ==
  LET L1 == IF k \in Keys(L) THEN L
            ELSE <<[key |-> k, count |-> 0, domains |-> {},
                    sources |-> <<>>]>>
      i  == IndexOf(L1, k)
      e  == L1[i]
      e1 == IF domain \notin e.domains
            THEN [e EXCEPT !.count = @ + 1, !.domains = @ \cup {domain}]
            ELSE e
  IN [L1 EXCEPT ![i] = [e1 EXCEPT !.sources = Append(@, src)]]

\* if key not in ledgers: ledgers[key] = {count 0, domains set(), sources []}
\* if domain not in domains: count += 1; domains.add(domain)
\* sources.append(src)
record(L, k, domain, src) ==
  LET L1 == IF k \in Keys(L) THEN L
            ELSE Append(L, [key |-> k, count |-> 0, domains |-> {},
                            sources |-> <<>>])
      i  == IndexOf(L1, k)
      e  == L1[i]
      e1 == IF domain \notin e.domains
            THEN [e EXCEPT !.count = @ + 1, !.domains = @ \cup {domain}]
            ELSE e
  IN [L1 EXCEPT ![i] = [e1 EXCEPT !.sources = Append(@, src)]]

\* the quorum test written as count > 2
QuorumReachedLate(L, k) == Entry(L, k).count > QUORUM

\* mutant: the early-stop test dropped, the loop always runs to its end
QuorumReachedNever(L, k) == FALSE

\* ledgers[key]["count"] >= 2
QuorumReached(L, k) == Entry(L, k).count >= QUORUM

\* any(ledger["count"] >= 2 for ledger in ledgers.values())
AnyQuorum(L) == \E i \in 1..Len(L) : L[i].count >= QUORUM

\* candidates[: args.max_scans]
ScanSlice == PySlice(candidates, max_scans)

\* ----------------------------------------------------------- common steps
\* if not candidates: write the no-evidence record and return
NoCandidatesRecord(p) ==
  CASE p = "birth" ->
         [birth_year |-> None, verified |-> 0,
          corroboration_outcome |-> "no_evidence",
          corroboration_attempts |-> 0,
          corroboration_counts |-> ZeroCounts,
          winner_year |-> None, winner_sources |-> <<>>,
          runner_up_years |-> <<>>]
    [] p = "death" ->
         [status |-> "unknown", death_year |-> None, verified |-> 0,
          corroboration_outcome |-> "no_evidence", scanned |-> 0]
    [] OTHER ->
         [nationalities |-> <<>>, unverified_nationalities |-> <<>>,
          verified |-> 0, corroboration_outcome |-> "no_evidence",
          scanned |-> 0]

\* if not all_chunks: raise ValueError("No chunks found."): nothing in
\* main() catches it, the retriever is not called, no record is written
NoChunks ==
  /\ pc = "start"
  /\ ~all_chunks
  /\ pc' = "crashed"
  /\ UNCHANGED <<all_chunks, batch, pipeline, max_scans, candidates, idx,
                 scanned, calls, year_ledgers, nationality_ledgers, counts,
                 alive_signals, winner_year, outcome, verified, out_file>>

\* the no-candidates branch without its return
NoCandidatesNoReturn ==
  /\ pc = "start"
  /\ all_chunks
  /\ candidates = <<>>
  /\ out_file' = Append(out_file, NoCandidatesRecord(pipeline))
  /\ pc' = "scan"
  /\ UNCHANGED <<all_chunks, batch,
                 pipeline, max_scans, candidates, idx, scanned, calls,
                 year_ledgers, nationality_ledgers, counts, alive_signals,
                 winner_year, outcome, verified>>

\* if not candidates: the no_evidence record is appended, return
NoCandidates ==
  /\ pc = "start"
  /\ all_chunks
  /\ candidates = <<>>
  /\ out_file' = Append(out_file, NoCandidatesRecord(pipeline))
  /\ pc' = "done"
  /\ UNCHANGED <<all_chunks, batch,
                 pipeline, max_scans, candidates, idx, scanned, calls,
                 year_ledgers, nationality_ledgers, counts, alive_signals,
                 winner_year, outcome, verified>>

\* the ledgers and scanned = 0 are created and the loop is entered
BeginScan ==
  /\ pc = "start"
  /\ all_chunks
  /\ candidates # <<>>
  /\ pc' = "scan"
  /\ UNCHANGED <<all_chunks, batch,
                 pipeline, max_scans, candidates, idx, scanned, calls,
                 year_ledgers, nationality_ledgers, counts, alive_signals,
                 winner_year, outcome, verified, out_file>>

\* scanned += 1; row = chunk_map.get(chunk_id); if not row: continue
SkipMissing ==
  /\ pc = "scan"
  /\ idx < Len(ScanSlice)
  /\ ~ScanSlice[idx + 1].row
  /\ idx' = idx + 1
  /\ scanned' = scanned + 1
  /\ UNCHANGED <<all_chunks, batch, pipeline, max_scans, candidates, pc, calls,
                 year_ledgers, nationality_ledgers, counts, alive_signals,
                 winner_year, outcome, verified, out_file>>

\* out = run_..._prompt_on_chunk(...) raises: nothing in main() catches it,
\* the interpreter prints the traceback and exits
ExtractorRaises ==
  /\ pc = "scan"
  /\ idx < Len(ScanSlice)
  /\ ScanSlice[idx + 1].row
  /\ ScanSlice[idx + 1].out.raises
  /\ idx' = idx + 1
  /\ scanned' = scanned + 1
  /\ calls' = Append(calls, idx + 1)
  /\ pc' = "crashed"
  /\ UNCHANGED <<all_chunks, batch, pipeline, max_scans, candidates,
                 year_ledgers, nationality_ledgers, counts, alive_signals,
                 winner_year, outcome, verified, out_file>>

\* the guard of an iteration in which the prompt call returns a text
Returns(p) ==
  /\ pipeline = p
  /\ pc = "scan"
  /\ idx < Len(ScanSlice)
  /\ ScanSlice[idx + 1].row
  /\ ~ScanSlice[idx + 1].out.raises

\* the for loop has no candidate left, or it was left by break
LoopOver == pc = "break" \/ (pc = "scan" /\ idx = Len(ScanSlice))

\* -------------------------------------------------------------- birth year
\* the dict appended to sources; chunk stands for the row's url and
\* chunk_index
BirthSource(c, pos) ==
  [chunk |-> pos, domain |-> c.domain, evidence_type |-> c.text,
   quality_rank |-> quality_rank(c.text)]

\* if not contains: counts["none"] += 1; continue
\* if year is None: counts["none"] += 1; continue
BirthNoClaim ==
  /\ Returns("birth")
  /\ LET p == parse_birth_prompt_output(ScanSlice[idx + 1].out)
     IN ~p.contains \/ p.year = None
  /\ idx' = idx + 1
  /\ scanned' = scanned + 1
  /\ calls' = Append(calls, idx + 1)
  /\ counts' = [counts EXCEPT !.none = @ + 1]
  /\ UNCHANGED <<all_chunks, batch,
                 pipeline, max_scans, candidates, pc, year_ledgers,
                 nationality_ledgers, alive_signals, winner_year, outcome,
                 verified, out_file>>

\* the test on len(year_ledgers) inverted
BreakOutcomeInverted(L) == IF Len(L) = 1 THEN "conflict_resolved" ELSE "verified"

\* outcome = "verified" if len(year_ledgers) == 1 else "conflict_resolved"
BreakOutcome(L) == IF Len(L) = 1 THEN "verified" ELSE "conflict_resolved"

BirthRecord ==
  /\ Returns("birth")
  /\ LET c == ScanSlice[idx + 1]
         p == parse_birth_prompt_output(c.out)
         L == record(year_ledgers, p.year, c.domain, BirthSource(c, idx + 1))
     IN /\ p.contains
        /\ p.year # None
        /\ year_ledgers' = L
        /\ IF QuorumReached(L, p.year)
           THEN /\ winner_year' = p.year
                /\ outcome' = BreakOutcome(L)
                /\ verified' = 2
                /\ pc' = "break"
           ELSE UNCHANGED <<winner_year, outcome, verified, pc>>
  /\ idx' = idx + 1
  /\ scanned' = scanned + 1
  /\ calls' = Append(calls, idx + 1)
  /\ UNCHANGED <<all_chunks, batch,
                 pipeline, max_scans, candidates, nationality_ledgers,
                 counts, alive_signals, out_file>>

\* top_years = [y for y, v in ledgers.items() if v["count"] == max_count]
TopYears(L) == KeysAtCount(L, SeqMax(L))

RECURSIVE MinQuality(_)
\* min((s.get("quality_rank", 999) for s in srcs), default=999)
MinQuality(srcs) ==
  IF srcs = <<>> THEN 999
  ELSE Min(srcs[1].quality_rank, MinQuality(Tail(srcs)))

\* the tie-break that takes the first of the tied years, quality unread
winner_by_qualityFirstTop(L) ==
  IF L = <<>> THEN None ELSE TopYears(L)[1]

\* the tie-break with q <= best_quality: the last of equal qualities wins
winner_by_qualityLastWins(L) ==
  IF L = <<>> THEN None
  ELSE LET top_years == TopYears(L)
           F[i \in 0..Len(top_years)] ==
             IF i = 0 THEN [best_year |-> None, best_quality |-> 999]
             ELSE LET q == MinQuality(Entry(L, top_years[i]).sources)
                  IN IF q <= F[i-1].best_quality
                     THEN [best_year |-> top_years[i], best_quality |-> q]
                     ELSE F[i-1]
       IN IF Len(top_years) = 1 THEN top_years[1]
          ELSE F[Len(top_years)].best_year

winner_by_quality(L) ==
  IF L = <<>> THEN None
  ELSE LET top_years == TopYears(L)
           F[i \in 0..Len(top_years)] ==
             IF i = 0 THEN [best_year |-> None, best_quality |-> 999]
             ELSE LET q == MinQuality(Entry(L, top_years[i]).sources)
                  IN IF q < F[i-1].best_quality
                     THEN [best_year |-> top_years[i], best_quality |-> q]
                     ELSE F[i-1]
       IN IF Len(top_years) = 1 THEN top_years[1]
          ELSE F[Len(top_years)].best_year

\* the else branch with several years classified like a single one
BirthElseNoConflict(L) ==
  IF L = <<>>
  THEN [winner_year |-> None, outcome |-> "no_evidence", verified |-> 0]
  ELSE LET max_count == SeqMax(L)
           top_years == TopYears(L)
       IN IF max_count >= 2 /\ Len(top_years) = 1
          THEN [winner_year |-> top_years[1], outcome |-> BreakOutcome(L),
                verified |-> 2]
          ELSE [winner_year |-> top_years[1], outcome |-> "no_corroboration",
                verified |-> 1]

\* mutant: the else branch that reports an inconclusive conflict at level 0
BirthElseInconclusiveZero(L) ==
  IF L = <<>>
  THEN [winner_year |-> None, outcome |-> "no_evidence", verified |-> 0]
  ELSE LET max_count == SeqMax(L)
           top_years == TopYears(L)
           w == winner_by_quality(L)
       IN IF max_count >= 2 /\ Len(top_years) = 1
          THEN [winner_year |-> top_years[1], outcome |-> BreakOutcome(L),
                verified |-> 2]
          ELSE IF Len(L) = 1
          THEN [winner_year |-> L[1].key, outcome |-> "no_corroboration",
                verified |-> 1]
          ELSE IF w # None /\ Entry(L, w).count >= 2
          THEN [winner_year |-> w, outcome |-> "conflict_resolved",
                verified |-> 2]
          ELSE [winner_year |-> w, outcome |-> "conflict_inconclusive",
                verified |-> 0]

\* the else branch of the for loop
BirthElse(L) ==
  IF L = <<>>
  THEN [winner_year |-> None, outcome |-> "no_evidence", verified |-> 0]
  ELSE LET max_count == SeqMax(L)
           top_years == TopYears(L)
           w == winner_by_quality(L)
       IN IF max_count >= 2 /\ Len(top_years) = 1
          THEN [winner_year |-> top_years[1], outcome |-> BreakOutcome(L),
                verified |-> 2]
          ELSE IF Len(L) = 1
          THEN [winner_year |-> L[1].key, outcome |-> "no_corroboration",
                verified |-> 1]
          ELSE IF w # None /\ Entry(L, w).count >= 2
          THEN [winner_year |-> w, outcome |-> "conflict_resolved",
                verified |-> 2]
          ELSE [winner_year |-> w, outcome |-> "conflict_inconclusive",
                verified |-> 1]

\* mutant: runner_up_years without the test y != winner_year
RunnerUpsAll(L, w) ==
  [i \in 1..Len(L) |->
     [year |-> L[i].key, count |-> L[i].count,
      sample_source |-> IF L[i].sources # <<>>
                        THEN <<L[i].sources[1]>> ELSE <<>>]]

\* runner_up_years
RunnerUps(L, w) ==
  LET F[i \in 0..Len(L)] ==
        IF i = 0 THEN <<>>
        ELSE IF w = None \/ L[i].key # w
             THEN Append(F[i-1],
                    [year |-> L[i].key, count |-> L[i].count,
                     sample_source |-> IF L[i].sources # <<>>
                                       THEN <<L[i].sources[1]>> ELSE <<>>])
             ELSE F[i-1]
  IN F[Len(L)]

\* year_ledgers.get(winner_year, {}).get("sources", []) if winner is set
SourcesOf(L, w) ==
  IF w # None /\ w \in Keys(L) THEN Entry(L, w).sources ELSE <<>>

BirthResult(L, r, n, cnt) ==
  [birth_year |-> r.winner_year, verified |-> r.verified,
   corroboration_outcome |-> r.outcome, corroboration_attempts |-> n,
   corroboration_counts |-> cnt, winner_year |-> r.winner_year,
   winner_sources |-> SourcesOf(L, r.winner_year),
   runner_up_years |-> RunnerUps(L, r.winner_year)]

BirthFinish ==
  /\ pipeline = "birth"
  /\ LoopOver
  /\ LET r == IF pc = "break"
              THEN [winner_year |-> winner_year, outcome |-> outcome,
                    verified |-> verified]
              ELSE BirthElse(year_ledgers)
     IN /\ winner_year' = r.winner_year
        /\ outcome' = r.outcome
        /\ verified' = r.verified
        /\ out_file' = Append(out_file,
                         BirthResult(year_ledgers, r, scanned, counts))
  /\ pc' = "done"
  /\ UNCHANGED <<all_chunks, batch,
                 pipeline, max_scans, candidates, idx, scanned, calls,
                 year_ledgers, nationality_ledgers, counts, alive_signals>>

\* -------------------------------------------------------------- death year
DeathSource(c, pos) ==
  [chunk |-> pos, domain |-> c.domain, evidence_type |-> c.text,
   quality_rank |-> death_quality_rank(c.text)]

AliveSignal(c, pos) ==
  [chunk |-> pos, domain |-> c.domain, evidence_type |-> c.text]

\* mutant: the ledger is saved to the output file after every recorded year
DeathRecordSavesLedger ==
  /\ Returns("death")
  /\ LET c == ScanSlice[idx + 1]
         p == parse_death_prompt_output(c.out)
         L == record(year_ledgers, p.year, c.domain, DeathSource(c, idx + 1))
     IN /\ p.status = "deceased"
        /\ p.year # None
        /\ year_ledgers' = L
        /\ out_file' = Append(out_file, [death_year_ledgers |-> L])
        /\ pc' = IF QuorumReached(L, p.year) THEN "break" ELSE pc
  /\ idx' = idx + 1
  /\ scanned' = scanned + 1
  /\ calls' = Append(calls, idx + 1)
  /\ UNCHANGED <<all_chunks, batch,
                 pipeline, max_scans, candidates, nationality_ledgers,
                 counts, alive_signals, winner_year, outcome, verified>>

\* if status == "deceased" and year: record; break on quorum
DeathRecord ==
  /\ Returns("death")
  /\ LET c == ScanSlice[idx + 1]
         p == parse_death_prompt_output(c.out)
         L == record(year_ledgers, p.year, c.domain, DeathSource(c, idx + 1))
     IN /\ p.status = "deceased"
        /\ p.year # None
        /\ year_ledgers' = L
        /\ pc' = IF QuorumReached(L, p.year) THEN "break" ELSE pc
  /\ idx' = idx + 1
  /\ scanned' = scanned + 1
  /\ calls' = Append(calls, idx + 1)
  /\ UNCHANGED <<all_chunks, batch,
                 pipeline, max_scans, candidates, nationality_ledgers,
                 counts, alive_signals, winner_year, outcome, verified,
                 out_file>>

\* elif status == "alive": alive_signals.append(...)
DeathAlive ==
  /\ Returns("death")
  /\ LET c == ScanSlice[idx + 1]
         p == parse_death_prompt_output(c.out)
     IN /\ ~(p.status = "deceased" /\ p.year # None)
        /\ p.status = "alive"
        /\ alive_signals' = Append(alive_signals, AliveSignal(c, idx + 1))
  /\ idx' = idx + 1
  /\ scanned' = scanned + 1
  /\ calls' = Append(calls, idx + 1)
  /\ UNCHANGED <<all_chunks, batch,
                 pipeline, max_scans, candidates, pc, year_ledgers,
                 nationality_ledgers, counts, winner_year, outcome, verified,
                 out_file>>

\* else: print "unknown"
DeathUnknown ==
  /\ Returns("death")
  /\ LET p == parse_death_prompt_output(ScanSlice[idx + 1].out)
     IN /\ ~(p.status = "deceased" /\ p.year # None)
        /\ p.status # "alive"
  /\ idx' = idx + 1
  /\ scanned' = scanned + 1
  /\ calls' = Append(calls, idx + 1)
  /\ UNCHANGED <<all_chunks, batch,
                 pipeline, max_scans, candidates, pc, year_ledgers,
                 nationality_ledgers, counts, alive_signals, winner_year,
                 outcome, verified, out_file>>

\* the classification after the loop
\* mutant: the classification that reads the alive signals before the ledger
DeathClassifyAliveFirst(L, alive) ==
  IF Cardinality({alive[i].domain : i \in 1..Len(alive)}) >= 2
  THEN [status |-> "alive", winner_year |-> None,
        verified |-> 2, outcome |-> "verified"]
  ELSE IF L # <<>>
  THEN IF SeqMax(L) >= 2
       THEN [status |-> "deceased", winner_year |-> TopYears(L)[1],
             verified |-> 2, outcome |-> "verified"]
       ELSE [status |-> "deceased", winner_year |-> TopYears(L)[1],
             verified |-> 1, outcome |-> "no_corroboration"]
  ELSE IF alive # <<>>
  THEN [status |-> "alive", winner_year |-> None,
        verified |-> 1, outcome |-> "no_corroboration"]
  ELSE [status |-> "unknown", winner_year |-> None,
        verified |-> 0, outcome |-> "no_evidence"]

DeathClassify(L, alive) ==
  IF L # <<>>
  THEN IF SeqMax(L) >= 2
       THEN [status |-> "deceased", winner_year |-> TopYears(L)[1],
             verified |-> 2, outcome |-> "verified"]
       ELSE [status |-> "deceased", winner_year |-> TopYears(L)[1],
             verified |-> 1, outcome |-> "no_corroboration"]
  ELSE IF alive # <<>>
  THEN IF Cardinality({alive[i].domain : i \in 1..Len(alive)}) >= 2
       THEN [status |-> "alive", winner_year |-> None,
             verified |-> 2, outcome |-> "verified"]
       ELSE [status |-> "alive", winner_year |-> None,
             verified |-> 1, outcome |-> "no_corroboration"]
  ELSE [status |-> "unknown", winner_year |-> None,
        verified |-> 0, outcome |-> "no_evidence"]

DeathResult(L, alive, r, n) ==
  [status |-> r.status, death_year |-> r.winner_year,
   verified |-> r.verified, corroboration_outcome |-> r.outcome,
   scanned |-> n,
   death_year_sources |-> SourcesOf(L, r.winner_year),
   alive_signals |-> IF r.status = "alive" THEN alive ELSE <<>>]

DeathFinish ==
  /\ pipeline = "death"
  /\ LoopOver
  /\ LET r == DeathClassify(year_ledgers, alive_signals)
     IN /\ winner_year' = r.winner_year
        /\ outcome' = r.outcome
        /\ verified' = r.verified
        /\ out_file' = Append(out_file,
                         DeathResult(year_ledgers, alive_signals, r, scanned))
  /\ pc' = "done"
  /\ UNCHANGED <<all_chunks, batch,
                 pipeline, max_scans, candidates, idx, scanned, calls,
                 year_ledgers, nationality_ledgers, counts, alive_signals>>

\* ------------------------------------------------------------- nationality
NatSource(c, pos) == [chunk |-> pos, domain |-> c.domain]

RECURSIVE RecordAll(_, _, _, _)
\* for nat in nationalities: record
RecordAll(L, nats, domain, src) ==
  IF nats = <<>> THEN L
  ELSE RecordAll(record(L, Head(nats), domain, src), Tail(nats), domain, src)

\* if not found or not nationalities: continue
NatNoClaim ==
  /\ Returns("nat")
  /\ LET p == parse_nationality_prompt_output(ScanSlice[idx + 1].out)
     IN ~p.found \/ p.nationalities = {}
  /\ idx' = idx + 1
  /\ scanned' = scanned + 1
  /\ calls' = Append(calls, idx + 1)
  /\ UNCHANGED <<all_chunks, batch,
                 pipeline, max_scans, candidates, pc, year_ledgers,
                 nationality_ledgers, counts, alive_signals, winner_year,
                 outcome, verified, out_file>>

\* what the loop does once a chunk's codes are recorded:
\* if any(ledger["count"] >= 2 ...): break
NatAfterRecord(L) == IF AnyQuorum(L) THEN "break" ELSE "scan"

NatRecord ==
  /\ Returns("nat")
  /\ LET c == ScanSlice[idx + 1]
         p == parse_nationality_prompt_output(c.out)
     IN /\ p.found
        /\ p.nationalities # {}
        /\ \E nats \in Orderings(p.nationalities) :
             LET L == RecordAll(nationality_ledgers, nats, c.domain,
                                NatSource(c, idx + 1))
             IN /\ nationality_ledgers' = L
                /\ pc' = NatAfterRecord(L)
  /\ idx' = idx + 1
  /\ scanned' = scanned + 1
  /\ calls' = Append(calls, idx + 1)
  /\ UNCHANGED <<all_chunks, batch,
                 pipeline, max_scans, candidates, year_ledgers, counts,
                 alive_signals, winner_year, outcome, verified, out_file>>

\* the classification with the unverified list taken as count >= 1
NatClassifyLoose(L) ==
  LET verified_nats   == KeysAtLeast(L, 2)
      unverified_nats == KeysAtLeast(L, 1)
  IN [nationalities |-> verified_nats,
      unverified_nationalities |-> unverified_nats,
      verified |-> IF verified_nats # <<>> THEN 2
                   ELSE IF unverified_nats # <<>> THEN 1 ELSE 0,
      outcome |-> IF verified_nats # <<>> THEN "verified"
                  ELSE IF unverified_nats # <<>> THEN "partial"
                  ELSE "no_evidence"]

\* verified_nats / unverified_nats and the outcome
NatClassify(L) ==
  LET verified_nats   == KeysAtLeast(L, 2)
      unverified_nats == KeysAtCount(L, 1)
  IN [nationalities |-> verified_nats,
      unverified_nationalities |-> unverified_nats,
      verified |-> IF verified_nats # <<>> THEN 2
                   ELSE IF unverified_nats # <<>> THEN 1 ELSE 0,
      outcome |-> IF verified_nats # <<>> THEN "verified"
                  ELSE IF unverified_nats # <<>> THEN "partial"
                  ELSE "no_evidence"]

NatDetails(L) ==
  [i \in 1..Len(L) |->
     [nat |-> L[i].key, count |-> L[i].count, sources |-> L[i].sources]]

NatResult(L, r, n) ==
  [nationalities |-> r.nationalities,
   unverified_nationalities |-> r.unverified_nationalities,
   verified |-> r.verified, corroboration_outcome |-> r.outcome,
   scanned |-> n, nationality_details |-> NatDetails(L)]

NatFinish ==
  /\ pipeline = "nat"
  /\ LoopOver
  /\ LET r == NatClassify(nationality_ledgers)
     IN /\ outcome' = r.outcome
        /\ verified' = r.verified
        /\ out_file' = Append(out_file,
                         NatResult(nationality_ledgers, r, scanned))
  /\ pc' = "done"
  /\ UNCHANGED <<all_chunks, batch,
                 pipeline, max_scans, candidates, idx, scanned, calls,
                 year_ledgers, nationality_ledgers, counts, alive_signals,
                 winner_year>>

\* ------------------------------------------------------- the specification
Next ==
  \/ NoChunks
  \/ NoCandidates
  \/ BeginScan
  \/ SkipMissing
  \/ ExtractorRaises
  \/ BirthNoClaim
  \/ BirthRecord
  \/ BirthFinish
  \/ DeathRecord
  \/ DeathAlive
  \/ DeathUnknown
  \/ DeathFinish
  \/ NatNoClaim
  \/ NatRecord
  \/ NatFinish

Spec == Init /\ [][Next]_vars

\* ===================================================================
\* Properties
\* ===================================================================
\* What the candidate at position i of the slice claims, read off the input:
\* the year of a Present claim of the birth scan (contains_birthdate with a
\* year) or of the death scan (status deceased with a year), None otherwise.
ClaimAt(i) ==
  LET c == ScanSlice[i]
  IN IF ~c.row \/ c.out.raises THEN None
     ELSE IF pipeline = "birth"
     THEN LET q == parse_birth_prompt_output(c.out)
          IN IF q.contains THEN q.year ELSE None
     ELSE IF pipeline = "death"
     THEN LET q == parse_death_prompt_output(c.out)
          IN IF q.status = "deceased" THEN q.year ELSE None
     ELSE None

\* the domains that claim year y among the first j candidates of the slice
DomainsFor(y, j) == {ScanSlice[i].domain : i \in {k \in 1..j : ClaimAt(k) = y}}

\* some year has two independent domains among the first j candidates
QuorumAt(j) == \E y \in Years : Cardinality(DomainsFor(y, j)) >= QUORUM

Emitted == pc = "done" /\ Len(out_file) = 1
Rec == out_file[1]

\* ---- C1
\* two claims for y from different domains, no other year claimed up to the
\* second of them
FirstPairFor(y) ==
  \E i, j \in 1..Len(ScanSlice) :
     /\ i < j
     /\ ClaimAt(i) = y /\ ClaimAt(j) = y
     /\ ScanSlice[i].domain # ScanSlice[j].domain
     /\ \A k \in 1..j : ClaimAt(k) \in {None, y}

\* C1: birth-year scan, quorum correctness: if the first two Present claims
\* for a year y from two different domains come before any Present claim for
\* another year, the emitted record has winner_year = birth_year = y,
\* corroboration_outcome "verified" and verified = 2.
C1_QuorumCorrectness ==
  (pipeline = "birth" /\ pc = "done") =>
    \A y \in Years :
      FirstPairFor(y) =>
        /\ Len(out_file) = 1
        /\ Rec.winner_year = y
        /\ Rec.birth_year = y
        /\ Rec.corroboration_outcome = "verified"
        /\ Rec.verified = 2

\* the pair is completed by the third candidate, after a chunk that yielded
\* no claim or a repeat of the first domain
C1_Witness ==
  /\ pipeline = "birth" /\ Emitted
  /\ FirstPairFor(1950)
  /\ Rec.corroboration_attempts = 3
  /\ Rec.winner_year = 1950

\* ---- C2
OneAtQuorum(L, y) ==
  /\ y \in Keys(L)
  /\ Entry(L, y).count >= QUORUM
  /\ \A z \in Keys(L) : Entry(L, z).count >= QUORUM => z = y

\* C2 as stated: whenever exactly one year reaches the quorum the outcome is
\* "verified" with verified = 2, also when another year was recorded before.
C2_Original ==
  (pipeline = "birth" /\ Emitted) =>
    \A y \in Years :
      OneAtQuorum(year_ledgers, y) =>
        /\ Rec.corroboration_outcome = "verified"
        /\ Rec.verified = 2

\* ---- C3
AllSources(L) == UNION {Range(L[i].sources) : i \in 1..Len(L)}

\* C3: early stop of the birth-year and death-year scans: once the loop has
\* taken the candidate j that gives some year its second independent domain,
\* the scan is over: the loop position and scanned equal j, the prompt was
\* never run on a later candidate, the ledger holds no record of a later
\* candidate, and the emitted record reports j scanned chunks.
C3_EarlyStop ==
  pipeline \in {"birth", "death"} =>
    \A j \in 1..Len(ScanSlice) :
      (QuorumAt(j) /\ ~QuorumAt(j - 1) /\ idx >= j) =>
        /\ idx = j
        /\ scanned = j
        /\ pc \in {"break", "done"}
        /\ \A k \in Range(calls) : k <= j
        /\ \A src \in AllSources(year_ledgers) : src.chunk <= j
        /\ pc = "done" =>
             /\ Len(out_file) = 1
             /\ IF pipeline = "birth"
                THEN Rec.corroboration_attempts = j
                ELSE Rec.scanned = j

\* the scan stopped on quorum at the second candidate although a third one,
\* within the budget, claims the other year
C3_Witness ==
  /\ pipeline = "death" /\ Emitted
  /\ Len(ScanSlice) = 3
  /\ QuorumAt(2)
  /\ ClaimAt(3) # None /\ ClaimAt(3) # ClaimAt(2)
  /\ Rec.scanned = 2
  /\ Rec.verified = 2

\* ---- C4
Stopped == pc \in {"break", "done", "crashed"}

BudgetInv ==
  /\ scanned <= max_scans
  /\ scanned <= Len(candidates)
  /\ Len(calls) <= max_scans
  /\ \A i, j \in 1..Len(calls) : i < j => calls[i] < calls[j]
  /\ \A i \in 1..Len(calls) : calls[i] <= idx

\* each step takes at most the next candidate, and a stopped scan takes none
BudgetStep ==
  /\ idx' \in {idx, idx + 1}
  /\ Stopped =>
       /\ Stopped'
       /\ idx' = idx /\ scanned' = scanned /\ calls' = calls
       /\ year_ledgers' = year_ledgers
       /\ nationality_ledgers' = nationality_ledgers

\* C4 as stated: budget respect in the three scans: scanned <= max_scans
\* and scanned <= number of candidates in every state, the prompt is run at
\* most max_scans times, the candidates are taken at most once each and in
\* rank order, and a scan that has stopped never resumes.
C4_Original == [](BudgetInv) /\ [][BudgetStep]_vars

\* ---- C5
\* C5 as stated: the nationality scan does not stop when a code reaches
\* count >= 2, it scans until min(max_scans, number of candidates) chunks
\* are scanned.
C5_Original ==
  (pipeline = "nat" /\ pc \in {"break", "done"}
     /\ AnyQuorum(nationality_ledgers)) =>
    scanned = Min(max_scans, Len(candidates))

\* ---- C6
\* C6 as stated: a prompt call that raises is treated as "claim absent":
\* the scan goes on and is never aborted by it.
C6_Original ==
  \A k \in Range(calls) : ScanSlice[k].out.raises => pc \in {"scan", "break", "done"}

\* ---- C7
\* C7 as stated: a candidate whose chunk is missing from the chunk index
\* does not count in scanned nor against the budget: scanned counts the
\* chunks the prompt was run on, and when the loop ends without a quorum
\* the prompt was run on min(max_scans, number of indexed candidates) chunks.
C7_Original ==
  /\ scanned = Len(calls)
  /\ (pc = "scan" /\ idx = Len(ScanSlice)) =>
       Len(calls) =
         Min(max_scans,
             Cardinality({i \in 1..Len(candidates) : candidates[i].row}))

\* ---- C8
EmptyValue(r) ==
  CASE pipeline = "birth" ->
         /\ r.birth_year = None /\ r.winner_year = None
         /\ r.winner_sources = <<>> /\ r.runner_up_years = <<>>
         /\ r.corroboration_attempts = 0
    [] pipeline = "death" ->
         /\ r.death_year = None /\ r.status = "unknown" /\ r.scanned = 0
    [] OTHER ->
         /\ r.nationalities = <<>> /\ r.unverified_nationalities = <<>>
         /\ r.scanned = 0

\* C8: no candidates: when the retriever is called (the chunk file holds a
\* chunk) and returns no candidate, the pipeline writes exactly one record,
\* with outcome no_evidence, verified 0, scanned/attempts 0 and a null or
\* empty value; the prompt is never run and no ledger entry is created.
C8_NoCandidates ==
  (all_chunks /\ candidates = <<>>) =>
    /\ pc \in {"start", "done"}
    /\ pc = "start" => (out_file = <<>> /\ ENABLED NoCandidates)
    /\ calls = <<>>
    /\ year_ledgers = <<>> /\ nationality_ledgers = <<>>
    /\ alive_signals = <<>>
    /\ pc = "done" =>
         /\ Len(out_file) = 1
         /\ Rec.corroboration_outcome = "no_evidence"
         /\ Rec.verified = 0
         /\ EmptyValue(Rec)

C8_Witness ==
  /\ candidates = <<>>
  /\ pipeline = "death"
  /\ Emitted
  /\ Rec.corroboration_outcome = "no_evidence"

\* ---- C9
LedgerOk(L) ==
  \A i \in 1..Len(L) :
     /\ L[i].count = Cardinality(L[i].domains)
     /\ Len(L[i].sources) >= L[i].count

\* C9: ledger invariant: for every tracked value of every scan,
\* count = |domains| and len(sources) >= count.
C9_LedgerInvariant ==
  LedgerOk(year_ledgers) /\ LedgerOk(nationality_ledgers)

\* a repeat of a domain was appended to the sources and not counted
C9_Witness ==
  \E i \in 1..Len(year_ledgers) :
     /\ year_ledgers[i].count = 1
     /\ Len(year_ledgers[i].sources) = 2

\* ---- C10
Monotone(L, M) ==
  \A i \in 1..Len(L) :
     /\ L[i].key \in Keys(M)
     /\ Entry(M, L[i].key).count >= L[i].count
     /\ Entry(M, L[i].key).count <= L[i].count + 1

\* C10: monotonic counting: in every scan step the count of every value
\* already in the ledger does not decrease and grows by at most 1, and no
\* value leaves the ledger.
C10_MonotonicCounting ==
  [][/\ Monotone(year_ledgers, year_ledgers')
     /\ Monotone(nationality_ledgers, nationality_ledgers')]_vars

\* a count has grown to 2 while another value stayed in the ledger at 1
C10_Witness ==
  /\ pipeline = "nat"
  /\ Len(nationality_ledgers) = 2
  /\ nationality_ledgers[1].count = 1
  /\ nationality_ledgers[2].count = 2

\* ---- C11
\* C11: domain independence in the birth-year and death-year scans: the count
\* of a year is the number of distinct domains among the scanned chunks that
\* claim it, so two chunks raise it by 2 exactly when their domains differ;
\* as long as every claimed year has claims from one domain only (the empty
\* domain included) every count is 1, the loop is not left by break and the
\* record does not report a year at verified = 2.
C11_DomainIndependence ==
  (pipeline \in {"birth", "death"} /\ pc # "start") =>
    /\ \A y \in Years :
         IF DomainsFor(y, idx) = {} THEN y \notin Keys(year_ledgers)
         ELSE /\ y \in Keys(year_ledgers)
              /\ Entry(year_ledgers, y).count = Cardinality(DomainsFor(y, idx))
    /\ (\A y \in Years : Cardinality(DomainsFor(y, idx)) <= 1) =>
         /\ pc # "break"
         /\ \A i \in 1..Len(year_ledgers) : year_ledgers[i].count = 1
         /\ Emitted =>
              IF pipeline = "birth" THEN Rec.verified # 2
              ELSE ~(Rec.status = "deceased" /\ Rec.verified = 2)

\* three chunks of the empty domain claimed the same year: counted once
C11_Witness ==
  /\ pipeline = "birth" /\ Emitted
  /\ Len(year_ledgers) = 1
  /\ year_ledgers[1].domains = {""}
  /\ Len(year_ledgers[1].sources) = 3
  /\ year_ledgers[1].count = 1
  /\ Rec.verified = 1

\* ---- C12
\* the years claimed among the first j candidates of the slice
ClaimedYears(j) == {y \in Years : DomainsFor(y, j) # {}}

\* C12: birth-year outcome when the budget is used up without a quorum: the
\* whole slice was scanned; no year claimed gives no_evidence, verified 0 and
\* a null winner; exactly one year claimed gives no_corroboration, verified 1
\* and that year as winner; two or more years claimed give
\* conflict_inconclusive with verified 1.
C12_ExhaustedOutcome ==
  (pipeline = "birth" /\ Emitted /\ candidates # <<>>
     /\ ~QuorumAt(Len(ScanSlice))) =>
    LET ys == ClaimedYears(Len(ScanSlice))
    IN /\ Rec.corroboration_attempts = Len(ScanSlice)
       /\ ys = {} =>
            /\ Rec.corroboration_outcome = "no_evidence"
            /\ Rec.verified = 0
            /\ Rec.winner_year = None /\ Rec.birth_year = None
       /\ Cardinality(ys) = 1 =>
            /\ Rec.corroboration_outcome = "no_corroboration"
            /\ Rec.verified = 1
            /\ ys = {Rec.winner_year} /\ Rec.birth_year = Rec.winner_year
       /\ Cardinality(ys) >= 2 =>
            /\ Rec.corroboration_outcome = "conflict_inconclusive"
            /\ Rec.verified = 1

\* two years, one domain each, after the whole budget was scanned
C12_Witness ==
  /\ pipeline = "birth" /\ Emitted
  /\ ClaimedYears(Len(ScanSlice)) = {1950, 1951}
  /\ Rec.corroboration_attempts = 3
  /\ Rec.corroboration_outcome = "conflict_inconclusive"

\* ---- C13
\* C13 as stated: the death-year pipeline follows the outcome table of the
\* scalar claims: two or more death years with one domain each give
\* conflict_inconclusive with verified = 1.
C13_Original ==
  (pipeline = "death" /\ Emitted /\ ~QuorumAt(Len(ScanSlice))
     /\ Cardinality(ClaimedYears(Len(ScanSlice))) >= 2) =>
    /\ Rec.corroboration_outcome = "conflict_inconclusive"
    /\ Rec.verified = 1

\* ---- C14
\* C14 as stated: the record says deceased with death_year = y only if y has
\* reached the quorum or is the only year with the highest count; a tie at
\* the highest count does not give deceased with one of the tied years.
C14_Original ==
  (pipeline = "death" /\ Emitted /\ Rec.status = "deceased") =>
    /\ Rec.death_year \in Keys(year_ledgers)
    /\ \/ Entry(year_ledgers, Rec.death_year).count >= QUORUM
       \/ Len(TopYears(year_ledgers)) = 1

\* ---- C15
\* the domains of the scanned chunks whose answer was status alive
AliveDomains(j) ==
  {ScanSlice[i].domain :
     i \in {k \in 1..j :
              /\ ScanSlice[k].row /\ ~ScanSlice[k].out.raises
              /\ parse_death_prompt_output(ScanSlice[k].out).status = "alive"}}

\* C15 as stated: when no death year was recorded the final status is alive
\* if and only if at least 2 distinct domains asserted alive, and unknown
\* when fewer than 2 did.
C15_Original ==
  (pipeline = "death" /\ Emitted /\ candidates # <<>>
     /\ ClaimedYears(Len(ScanSlice)) = {}) =>
    IF Cardinality(AliveDomains(Len(ScanSlice))) >= 2
    THEN Rec.status = "alive"
    ELSE Rec.status = "unknown"

\* ---- C16
NatCodes == {"FRA", "ITA"}

\* the codes the candidate at position i of the slice yields as a Present
\* claim, read off the input
NatClaimAt(i) ==
  LET c == ScanSlice[i]
  IN IF ~c.row \/ c.out.raises THEN {}
     ELSE LET q == parse_nationality_prompt_output(c.out)
          IN IF q.found THEN q.nationalities ELSE {}

\* the domains that claim the code among the first j candidates of the slice
NatDomainsFor(code, j) ==
  {ScanSlice[i].domain : i \in {k \in 1..j : code \in NatClaimAt(k)}}

NoRepeat(s) == Cardinality(Range(s)) = Len(s)

\* C16: nationality outcome: in the record nationalities holds exactly the
\* codes claimed by 2 or more domains among the scanned chunks,
\* unverified_nationalities exactly those claimed by 1, each code once, and
\* (outcome, verified) is (verified, 2) if the first list is non-empty,
\* (partial, 1) if only the second is, (no_evidence, 0) if both are empty.
C16_NatClassification ==
  (pipeline = "nat" /\ Emitted) =>
    LET ver == {c \in NatCodes : Cardinality(NatDomainsFor(c, scanned)) >= 2}
        unv == {c \in NatCodes : Cardinality(NatDomainsFor(c, scanned)) = 1}
    IN /\ Rec.scanned = scanned
       /\ Range(Rec.nationalities) = ver /\ NoRepeat(Rec.nationalities)
       /\ Range(Rec.unverified_nationalities) = unv
       /\ NoRepeat(Rec.unverified_nationalities)
       /\ Rec.verified = (IF ver # {} THEN 2 ELSE IF unv # {} THEN 1 ELSE 0)
       /\ Rec.corroboration_outcome =
            (IF ver # {} THEN "verified"
             ELSE IF unv # {} THEN "partial" ELSE "no_evidence")

\* one code verified and another one left unverified
C16_Witness ==
  /\ pipeline = "nat" /\ Emitted
  /\ Rec.nationalities = <<"FRA">>
  /\ Rec.unverified_nationalities = <<"ITA">>
  /\ Rec.corroboration_outcome = "verified"

\* ---- C17
\* C17 as stated: if the candidates within the budget yield FRA from two
\* distinct domains and ITA from one, in any rank order, the record has
\* nationalities [FRA], unverified_nationalities [ITA] and outcome verified.
C17_Original ==
  (pipeline = "nat" /\ Emitted
     /\ Cardinality(NatDomainsFor("FRA", Len(ScanSlice))) = 2
     /\ Cardinality(NatDomainsFor("ITA", Len(ScanSlice))) = 1) =>
    /\ Rec.nationalities = <<"FRA">>
    /\ Rec.unverified_nationalities = <<"ITA">>
    /\ Rec.corroboration_outcome = "verified"

\* ---- C18
SetMin(S) == CHOOSE q \in S : \A r \in S : q <= r
SetMax(S) == CHOOSE q \in S : \A r \in S : q >= r

\* the positions among the first j candidates that claim year y
PositionsFor(y, j) == {k \in 1..j : ClaimAt(k) = y}

\* the best (lowest) quality rank among the chunks that claim y
BestQualityIn(y, j) ==
  SetMin({quality_rank(ScanSlice[k].text) : k \in PositionsFor(y, j)})

\* the claimed years with the highest number of independent domains
TopClaimed(j) ==
  LET m == SetMax({Cardinality(DomainsFor(y, j)) : y \in ClaimedYears(j)})
  IN {y \in ClaimedYears(j) : Cardinality(DomainsFor(y, j)) = m}

\* C18: tie-break by quality in the birth-year pipeline: the reported winner
\* is one of the years with the highest count, and among them one whose best
\* quality_rank over its chunks is lowest; the same holds of
\* winner_by_quality on every ledger the scan builds, where a single year at
\* the highest count wins whatever the qualities.
C18_TieBreakQuality ==
  pipeline = "birth" =>
    /\ (Emitted /\ ClaimedYears(scanned) # {}) =>
         /\ Rec.winner_year \in TopClaimed(scanned)
         /\ \A t \in TopClaimed(scanned) :
              BestQualityIn(Rec.winner_year, scanned)
                <= BestQualityIn(t, scanned)
    /\ year_ledgers # <<>> =>
         LET w == winner_by_quality(year_ledgers)
         IN /\ w \in TopClaimed(idx)
            /\ \A t \in TopClaimed(idx) :
                 BestQualityIn(w, idx) <= BestQualityIn(t, idx)

\* the year recorded second wins the tie with an explicit field against a
\* narrative mention
C18_Witness ==
  /\ pipeline = "birth" /\ Emitted
  /\ Len(year_ledgers) = 2
  /\ year_ledgers[1].count = 1 /\ year_ledgers[2].count = 1
  /\ MinQuality(year_ledgers[1].sources) = 1
  /\ MinQuality(year_ledgers[2].sources) = 0
  /\ Rec.winner_year = year_ledgers[2].key

\* ---- C19
\* the first position among the first j candidates that claims y
FirstPos(y, j) == SetMin(PositionsFor(y, j))

\* C19: fixed rule of the tie-break: when several years are tied at the
\* highest count, the winner is, among the tied years of best quality, the
\* one claimed first in scan order; the winner is thereby determined by the
\* candidate sequence.
C19_TieBreakFirst ==
  (pipeline = "birth" /\ Emitted /\ Cardinality(TopClaimed(scanned)) >= 2) =>
    LET best == SetMin({BestQualityIn(t, scanned) : t \in TopClaimed(scanned)})
        cand == {t \in TopClaimed(scanned) : BestQualityIn(t, scanned) = best}
    IN /\ Rec.winner_year \in cand
       /\ \A t \in cand :
            FirstPos(Rec.winner_year, scanned) <= FirstPos(t, scanned)

\* both years have an explicit field; 1951, recorded first, wins
C19_Witness ==
  /\ pipeline = "birth" /\ Emitted
  /\ Len(year_ledgers) = 2
  /\ year_ledgers[1].key = 1951 /\ year_ledgers[2].key = 1950
  /\ year_ledgers[1].count = 1 /\ year_ledgers[2].count = 1
  /\ MinQuality(year_ledgers[1].sources) = MinQuality(year_ledgers[2].sources)
  /\ Rec.winner_year = 1951

\* ---- C20
\* A second run of the same main() on the same inputs: a new process starts
\* with fresh local state and appends to the same output file.
Rerun ==
  /\ pc = "done"
  /\ Len(out_file) = 1
  /\ pc' = "start"
  /\ idx' = 0
  /\ scanned' = 0
  /\ calls' = <<>>
  /\ year_ledgers' = <<>>
  /\ nationality_ledgers' = <<>>
  /\ counts' = ZeroCounts
  /\ alive_signals' = <<>>
  /\ winner_year' = None
  /\ outcome' = "unset"
  /\ verified' = -1
  /\ UNCHANGED <<all_chunks, batch, pipeline, max_scans, candidates, out_file>>

\* the runs with the whole budget
InitRerun == Init /\ max_scans = MaxScans

NextRerun == Next \/ Rerun

SpecRerun == InitRerun /\ [][NextRerun]_vars

\* C20 as stated: two runs of a pipeline over the same candidate list with
\* the same extractor answers append identical records: same values, level,
\* outcome, scanned count, and the same order of sources and listed values.
C20_Original ==
  Len(out_file) = 2 => out_file[1] = out_file[2]

\* ---- C21
\* the lists obtained by reordering the candidates within the budget
Reorderings(s, n) ==
  LET k == Len(PySlice(s, n))
  IN {[i \in 1..Len(s) |-> IF i <= k THEN s[p[i]] ELSE s[i]] :
        p \in Orderings(1..k)}

\* A second run of main() for the same person after the retriever ranked
\* the same candidates in another order.
RerunReordered ==
  /\ pc = "done"
  /\ Len(out_file) = 1
  /\ candidates' \in Reorderings(candidates, max_scans)
  /\ pc' = "start"
  /\ idx' = 0
  /\ scanned' = 0
  /\ calls' = <<>>
  /\ year_ledgers' = <<>>
  /\ nationality_ledgers' = <<>>
  /\ counts' = ZeroCounts
  /\ alive_signals' = <<>>
  /\ winner_year' = None
  /\ outcome' = "unset"
  /\ verified' = -1
  /\ UNCHANGED <<all_chunks, batch, pipeline, max_scans, out_file>>

\* the birth runs with the whole budget
InitReorder == Init /\ pipeline = "birth" /\ max_scans = MaxScans

NextReorder ==
  \/ NoChunks
  \/ NoCandidates
  \/ BeginScan
  \/ SkipMissing
  \/ ExtractorRaises
  \/ BirthNoClaim
  \/ BirthRecord
  \/ BirthFinish
  \/ RerunReordered

SpecReorder == InitReorder /\ [][NextReorder]_vars

\* C21 as stated: the birth result does not depend on the rank order: two
\* runs over the same candidates within the budget, in any two orders, give
\* the same winner_year and the same verified level.
C21_Original ==
  Len(out_file) = 2 =>
    /\ out_file[1].winner_year = out_file[2].winner_year
    /\ out_file[1].verified = out_file[2].verified

\* ---- C22
\* the scan is still running (or has not begun)
Scanning == pc \in {"start", "scan", "break"}

\* C22, the states: nothing is in the output file while the scan is running,
\* and a run that ended normally has appended exactly one record.
EmissionInv ==
  /\ Scanning => out_file = <<>>
  /\ pc = "done" => Len(out_file) = 1

\* C22, the steps: the output file changes only by the append of one record,
\* in the step that ends the run, taken after the scan has stopped (quorum
\* reached, budget or candidates exhausted, or no candidates at all).
EmissionStep ==
  out_file' # out_file =>
    /\ \E r \in {out_file'[Len(out_file')]} : out_file' = Append(out_file, r)
    /\ pc' = "done"
    /\ \/ pc = "start" /\ candidates = <<>>
       \/ pc = "break"
       \/ pc = "scan" /\ idx = Len(ScanSlice)

\* C22: in every run of a verify pipeline that ends normally exactly one
\* result record is appended to the output file, the append happens only
\* after the scan has stopped, and nothing is written while the scan is
\* still running.
C22_AtomicEmission == [](EmissionInv) /\ [][EmissionStep]_vars

\* a death run that stopped on quorum after three chunks and wrote its record
C22_Witness ==
  /\ Emitted
  /\ pipeline = "death"
  /\ scanned = 3
  /\ QuorumAt(3)

\* ---- C23
\* C23 as stated: when the verification of a person fails because the
\* extractor raises during the scan, a record of no_evidence shape (verified
\* 0) with an error field has still been written for that person.
C23_Original ==
  pc = "crashed" =>
    /\ Len(out_file) = 1
    /\ out_file[1].verified = 0
    /\ "error" \in DOMAIN out_file[1]

\* ---- C24
\* ------------------------------------------ the batch runner (birth, death)
\* a name of more characters than the OS takes in one argument
LongName == [j \in 1..(ArgLimit + 1) |-> "a"]

\* the person_name values of the chunk file, as lists of characters; "NUL"
\* is the character U+0000 and "SURR" a lone surrogate (JSON "\ud800"),
\* both kept by str.strip()
PersonNames ==
  {<<>>, <<" ">>, <<"a">>, <<" ", "a">>, <<"a", " ">>, <<"b">>,
   <<" ", "b", " ">>, <<"a", "NUL">>, <<"b", "SURR">>, LongName}

\* a chunk of the file: the key person_name may be missing or null
Chunks ==
  {[has_name |-> FALSE, person_name |-> <<>>]}
  \cup {[has_name |-> TRUE, person_name |-> s] : s \in PersonNames}

RECURSIVE lstrip(_)
lstrip(s) == IF s # <<>> /\ Head(s) = " " THEN lstrip(Tail(s)) ELSE s

RECURSIVE rstrip(_)
rstrip(s) ==
  IF s # <<>> /\ s[Len(s)] = " " THEN rstrip(SubSeq(s, 1, Len(s) - 1)) ELSE s

\* str.strip()
strip(s) == lstrip(rstrip(s))

\* nm = (c.get("person_name") or "").strip()
NameOf(c) == strip(IF c.has_name THEN c.person_name ELSE <<>>)

\* the return codes of a child: 0, or non-zero (1 stands for every non-zero
\* code: an uncaught exception, a usage error, a failed flush at exit)
ReturnCodes == {0, 1}

\* the batch runner's main() starts: the chunk file is loaded; the children
\* read the same file
InitBatch ==
  /\ pipeline \in {"birth", "death"}
  /\ max_scans = MaxScans
  /\ candidates = <<>>
  /\ pc = "start"
  /\ idx = 0
  /\ scanned = 0
  /\ calls = <<>>
  /\ year_ledgers = <<>>
  /\ nationality_ledgers = <<>>
  /\ counts = ZeroCounts
  /\ alive_signals = <<>>
  /\ winner_year = None
  /\ outcome = "unset"
  /\ verified = -1
  /\ out_file = <<>>
  /\ \E chunks \in SeqsUpTo(Chunks, MaxChunks), strict \in BOOLEAN :
       /\ all_chunks = (chunks # <<>>)
       /\ batch = [pc |-> "load", chunks |-> chunks, k |-> 0, seen |-> {},
                   names |-> <<>>, i |-> 0, started |-> <<>>,
                   appended |-> FALSE, codes |-> <<>>,
                   stdout_strict |-> strict]

\* one turn of: for c in chunks: nm = ...; if nm and nm not in seen: ...
LoadName ==
  /\ batch.pc = "load"
  /\ batch.k < Len(batch.chunks)
  /\ LET nm == NameOf(batch.chunks[batch.k + 1])
         new == nm # <<>> /\ nm \notin batch.seen
     IN batch' = [batch EXCEPT
                    !.k = @ + 1,
                    !.seen = IF new THEN @ \cup {nm} ELSE @,
                    !.names = IF new THEN Append(@, nm) ELSE @]
  /\ UNCHANGED <<all_chunks, pipeline, max_scans, candidates, pc, idx,
                 scanned, calls, year_ledgers, nationality_ledgers, counts,
                 alive_signals, winner_year, outcome, verified, out_file>>

\* print() raises UnicodeEncodeError on the string: it holds a lone
\* surrogate and the standard output encodes strictly (UTF-8 by default;
\* not with an error handler such as backslashreplace)
PrintRaises(nm) ==
  batch.stdout_strict /\ \E j \in 1..Len(nm) : nm[j] = "SURR"

\* the birth runner lists the names before the loop:
\* for i, n in enumerate(target_names, 1): print(f"  {i}. {n}")
ListingRaises ==
  /\ pipeline = "birth"
  /\ \E i \in 1..Len(batch.names) : PrintRaises(batch.names[i])

\* a print of the listing raises: nothing in main() catches it, the batch
\* runner exits with a traceback before any child is started
ListRaises ==
  /\ batch.pc = "load"
  /\ batch.k = Len(batch.chunks)
  /\ ListingRaises
  /\ batch' = [batch EXCEPT !.pc = "crashed"]
  /\ UNCHANGED <<all_chunks, pipeline, max_scans, candidates, pc, idx,
                 scanned, calls, year_ledgers, nationality_ledgers, counts,
                 alive_signals, winner_year, outcome, verified, out_file>>

\* target_names = names; the header (and, in the birth runner, the list of
\* names) is printed
BeginBatch ==
  /\ batch.pc = "load"
  /\ batch.k = Len(batch.chunks)
  /\ ~ListingRaises
  /\ batch' = [batch EXCEPT !.pc = "run"]
  /\ UNCHANGED <<all_chunks, pipeline, max_scans, candidates, pc, idx,
                 scanned, calls, year_ledgers, nationality_ledgers, counts,
                 alive_signals, winner_year, outcome, verified, out_file>>

\* a string subprocess.run can pass as an argument of a new process: no
\* U+0000 in it (ValueError: embedded null byte), no lone surrogate
\* (UnicodeEncodeError) and no more characters than the argument limit of
\* the OS (OSError: Argument list too long)
Passable(nm) ==
  /\ \A j \in 1..Len(nm) : nm[j] \notin {"NUL", "SURR"}
  /\ Len(nm) <= ArgLimit

\* print(f"[{i}/{n}] Processing: {name}") or subprocess.run raises before a
\* child exists; check=False does not cover it and nothing in main()
\* catches it: the batch runner exits with a traceback
StartRaises ==
  /\ batch.pc = "run"
  /\ batch.i < Len(batch.names)
  /\ ~Passable(batch.names[batch.i + 1])
  /\ batch' = [batch EXCEPT !.pc = "crashed"]
  /\ UNCHANGED <<all_chunks, pipeline, max_scans, candidates, pc, idx,
                 scanned, calls, year_ledgers, nationality_ledgers, counts,
                 alive_signals, winner_year, outcome, verified, out_file>>

\* one turn of: for i, name in enumerate(target_names, 1): subprocess.run
\* starts the child [... "--person", name ...] and waits for it
StartPerson ==
  /\ batch.pc = "run"
  /\ batch.i < Len(batch.names)
  /\ Passable(batch.names[batch.i + 1])
  /\ batch' = [batch EXCEPT
                 !.pc = "wait",
                 !.started = Append(@, batch.names[batch.i + 1]),
                 !.appended = FALSE]
  /\ UNCHANGED <<all_chunks, pipeline, max_scans, candidates, pc, idx,
                 scanned, calls, year_ledgers, nationality_ledgers, counts,
                 alive_signals, winner_year, outcome, verified, out_file>>

\* the child, a run of main() in another process, reaches its append (the
\* no-candidates record or the record after the loop) while the batch waits
ChildAppends ==
  /\ batch.pc = "wait"
  /\ ~batch.appended
  /\ out_file' = Append(out_file, [person |-> batch.names[batch.i + 1]])
  /\ batch' = [batch EXCEPT !.appended = TRUE]
  /\ UNCHANGED <<all_chunks, pipeline, max_scans, candidates, pc, idx,
                 scanned, calls, year_ledgers, nationality_ledgers, counts,
                 alive_signals, winner_year, outcome, verified>>

\* subprocess.run(..., check=False) returns: the child has exited, with 0
\* only after its append, with a non-zero code before the append (an
\* uncaught exception) or after it (a print after the append failed)
PersonReturns ==
  /\ batch.pc = "wait"
  /\ \E rc \in ReturnCodes :
       /\ rc = 0 => batch.appended
       /\ batch' = [batch EXCEPT
                      !.pc = "run",
                      !.i = @ + 1,
                      !.appended = FALSE,
                      !.codes = Append(@, rc)]
  /\ UNCHANGED <<all_chunks, pipeline, max_scans, candidates, pc, idx,
                 scanned, calls, year_ledgers, nationality_ledgers, counts,
                 alive_signals, winner_year, outcome, verified, out_file>>

\* the loop is over: print("All done!")
BatchDone ==
  /\ batch.pc = "run"
  /\ batch.i = Len(batch.names)
  /\ batch' = [batch EXCEPT !.pc = "done"]
  /\ UNCHANGED <<all_chunks, pipeline, max_scans, candidates, pc, idx,
                 scanned, calls, year_ledgers, nationality_ledgers, counts,
                 alive_signals, winner_year, outcome, verified, out_file>>

NextBatch ==
  \/ LoadName
  \/ ListRaises
  \/ BeginBatch
  \/ StartRaises
  \/ StartPerson
  \/ ChildAppends
  \/ PersonReturns
  \/ BatchDone

SpecBatch == InitBatch /\ [][NextBatch]_vars

\* the distinct non-empty names of the chunk file
DistinctNames ==
  {NameOf(batch.chunks[j]) : j \in 1..Len(batch.chunks)} \ {<<>>}

\* the first chunk that carries the name
FirstChunkOf(nm) ==
  SetMin({j \in 1..Len(batch.chunks) : NameOf(batch.chunks[j]) = nm})

\* the distinct non-empty names in the order of their first appearance
FirstAppearance ==
  CHOOSE s \in Orderings(DistinctNames) :
    \A a, b \in 1..Len(s) : a < b => FirstChunkOf(s[a]) < FirstChunkOf(s[b])

\* C24 as stated: the batch runner starts the verification of every
\* distinct non-empty person name exactly once, in the order of first
\* appearance; whatever the return codes of the children before it, the next
\* person is started, and the batch is never stopped before its end.
C24_Original ==
  /\ Len(batch.codes) = batch.i
  /\ Len(batch.started) = IF batch.pc = "wait" THEN batch.i + 1 ELSE batch.i
  /\ batch.started = SubSeq(FirstAppearance, 1, Len(batch.started))
  /\ batch.pc = "run" /\ batch.i < Cardinality(DistinctNames)
       => ENABLED StartPerson
  /\ batch.pc = "done" => batch.started = FirstAppearance
  /\ batch.pc # "done" => ENABLED NextBatch

\* ---- C25
\* C25: level and evidence of the emitted birth record agree: verified is 0,
\* 1 or 2; it is 2 if and only if the winner year has 2 or more independent
\* domains in the ledger; it is 0 if and only if the outcome is no_evidence,
\* if and only if the ledger is empty (no scanned chunk claimed a year), if
\* and only if winner_year is null.
C25_LevelEvidence ==
  (pipeline = "birth" /\ Emitted) =>
    LET w == Rec.winner_year
        two == /\ w # None
               /\ w \in Keys(year_ledgers)
               /\ Cardinality(Entry(year_ledgers, w).domains) >= QUORUM
    IN /\ Rec.verified \in {0, 1, 2}
       /\ Rec.verified = 2 <=> two
       /\ two <=> (w # None /\ Cardinality(DomainsFor(w, scanned)) >= QUORUM)
       /\ Rec.verified = 0 <=> Rec.corroboration_outcome = "no_evidence"
       /\ Rec.verified = 0 <=> year_ledgers = <<>>
       /\ Rec.verified = 0 <=> ClaimedYears(scanned) = {}
       /\ Rec.verified = 0 <=> w = None

\* a record at level 1 over two conflicting years, each from one domain
C25_Witness ==
  /\ pipeline = "birth"
  /\ Emitted
  /\ Rec.verified = 1
  /\ Len(year_ledgers) = 2
  /\ scanned = 3

\* ---- C26
\* C26: in the birth-year and death-year scans no year's count ever exceeds
\* 2, by the ledger and by the candidates scanned, at most one year has
\* count 2, and a ledger holding a count of 2 belongs to a scan that has
\* stopped: two years are never tied at a count of 2 or more.
C26_CountCap ==
  pipeline \in {"birth", "death"} =>
    /\ \A i \in 1..Len(year_ledgers) : year_ledgers[i].count <= QUORUM
    /\ \A y \in Years : Cardinality(DomainsFor(y, idx)) <= QUORUM
    /\ Cardinality({i \in 1..Len(year_ledgers) :
                      year_ledgers[i].count >= QUORUM}) <= 1
    /\ AnyQuorum(year_ledgers) => pc \in {"break", "done"}

\* a scan stopped with one year at count 2 next to another year at count 1
C26_Witness ==
  /\ pipeline \in {"birth", "death"}
  /\ pc = "break"
  /\ Len(year_ledgers) = 2
  /\ \E i, j \in 1..2 : year_ledgers[i].count = 2 /\ year_ledgers[j].count = 1

\* ---- C27
\* the step of the birth pipeline that classifies and writes the record
OutcomeStep ==
  (pipeline = "birth" /\ pc \in {"scan", "break"} /\ pc' = "done") =>
    /\ out_file'[1].corroboration_outcome = "conflict_resolved"
         <=> (pc = "break" /\ Len(year_ledgers) >= 2)
    /\ pc = "break" <=> QuorumAt(scanned)
    /\ pc = "scan" => out_file'[1].verified # 2

\* C27: the birth-year outcome is conflict_resolved exactly when the scan
\* stopped on quorum with two or more distinct years in the ledger; when the
\* loop ends without the early stop verified is never 2: the branches of the
\* for-else that assign verified = 2 are never taken.
C27_ConflictResolved == [][OutcomeStep]_vars

\* a scan of three chunks that stopped on quorum with two years recorded
C27_Witness ==
  /\ pipeline = "birth"
  /\ Emitted
  /\ Rec.corroboration_outcome = "conflict_resolved"
  /\ Rec.corroboration_attempts = 3
  /\ Cardinality(ClaimedYears(3)) = 2

\* ---- C28
\* C28: precedence in the death pipeline: when some scanned chunk yields
\* deceased with a year, the final status is deceased with one of the
\* claimed years, verified is 1 or 2 and the emitted alive_signals list is
\* empty, however many domains asserted alive; and the scan stops early only
\* on a chunk that gives a death year its second independent domain, never
\* on an alive assertion.
C28_DeceasedPrecedence ==
  pipeline = "death" =>
    /\ (Emitted /\ ClaimedYears(scanned) # {}) =>
         /\ Rec.status = "deceased"
         /\ Rec.death_year \in ClaimedYears(scanned)
         /\ Rec.verified \in {1, 2}
         /\ Rec.alive_signals = <<>>
    /\ pc = "break" =>
         /\ idx >= 1
         /\ ClaimAt(idx) \in Years
         /\ Cardinality(DomainsFor(ClaimAt(idx), idx)) >= QUORUM
    /\ (ClaimedYears(idx) = {} /\ pc # "crashed") =>
         pc \in {"start", "scan", "done"} /\ (pc = "scan" => scanned = idx)

\* two domains asserted alive, a third chunk gave a death year: the record
\* is deceased
C28_Witness ==
  /\ pipeline = "death"
  /\ Emitted
  /\ scanned = 3
  /\ Cardinality(AliveDomains(3)) = 2
  /\ Len(alive_signals) = 2
  /\ ClaimedYears(3) # {}

\* ---- C29
\* C29: provenance of the birth record: winner_sources is the ledger's source
\* list of the winner year, one record per scanned chunk that yielded that
\* year, in scan order, repeated domains included; every other recorded year
\* is exactly once in runner_up_years with its final count; the winner is
\* not in runner_up_years; winner_sources is empty if and only if
\* winner_year is null.
C29_Provenance ==
  (pipeline = "birth" /\ Emitted) =>
    LET w == Rec.winner_year
        ws == Rec.winner_sources
        ru == Rec.runner_up_years
    IN /\ ws = SourcesOf(year_ledgers, w)
       /\ w # None =>
            /\ w \in Keys(year_ledgers)
            /\ {ws[i].chunk : i \in 1..Len(ws)} = PositionsFor(w, scanned)
            /\ \A i, j \in 1..Len(ws) : i < j => ws[i].chunk < ws[j].chunk
            /\ \A i \in 1..Len(ws) :
                 ws[i].domain = ScanSlice[ws[i].chunk].domain
       /\ \A y \in ClaimedYears(scanned) \ {w} :
            /\ Cardinality({i \in 1..Len(ru) : ru[i].year = y}) = 1
            /\ \A i \in 1..Len(ru) :
                 ru[i].year = y =>
                   /\ ru[i].count = Entry(year_ledgers, y).count
                   /\ ru[i].count = Cardinality(DomainsFor(y, scanned))
       /\ \A i \in 1..Len(ru) :
            ru[i].year # w /\ ru[i].year \in ClaimedYears(scanned)
       /\ ws = <<>> <=> w = None

\* the winner year was given twice by the same domain, another year once
C29_Witness ==
  /\ pipeline = "birth"
  /\ Emitted
  /\ Len(Rec.winner_sources) = 2
  /\ Rec.winner_sources[1].domain = Rec.winner_sources[2].domain
  /\ Len(Rec.runner_up_years) = 1

\* ---- C30
\* the codes listed by the first j candidates whose output says
\* nationalities_found = true
PresentCodes(j) ==
  UNION {Range(ScanSlice[k].out.codes) :
           k \in {i \in 1..j : /\ ScanSlice[i].row
                               /\ ~ScanSlice[i].out.raises
                               /\ ScanSlice[i].out.flag = "true"
                               /\ ScanSlice[i].out.has_list}}

\* C30: partition of the nationality ledger: every code in the ledger has
\* count >= 1 at all times and comes from a scanned chunk flagged
\* nationalities_found = true, a code of a chunk flagged false is never
\* recorded; in the record nationalities and unverified_nationalities are
\* disjoint and their union is the set of codes of the scanned chunks whose
\* claim was present.
C30_NatPartition ==
  pipeline = "nat" =>
    /\ \A i \in 1..Len(nationality_ledgers) :
         nationality_ledgers[i].count >= 1
    /\ pc # "crashed" => Keys(nationality_ledgers) = PresentCodes(idx)
    /\ Emitted =>
         /\ Range(Rec.nationalities)
              \cap Range(Rec.unverified_nationalities) = {}
         /\ Range(Rec.nationalities)
              \cup Range(Rec.unverified_nationalities) = PresentCodes(scanned)

\* a chunk flagged false listed FRA, the ledger holds only ITA, at count 2
C30_Witness ==
  /\ pipeline = "nat"
  /\ Emitted
  /\ \E k \in 1..scanned :
       /\ ScanSlice[k].out.flag = "false"
       /\ ScanSlice[k].out.codes = <<"FRA">>
  /\ Rec.nationalities = <<"ITA">>
  /\ Rec.unverified_nationalities = <<>>
====
